---- MODULE Spec2Model ----
(***************************************************************************)
(* Model of the proofreading pipeline: chunkText, proofreadChunk,          *)
(* applyAutoCorrections, insertSuggestionComments and proofread            *)
(* (proofread.ts) and applySuggestions (scripts/apply-suggestions.ts).     *)
(*                                                                         *)
(* A JavaScript string is a sequence of one-character strings, so that     *)
(* split, join, replace, trimEnd and the resolver's regular expression are *)
(* computed character by character.                                        *)
(***************************************************************************)
EXTENDS Integers, Sequences, FiniteSets, TLC

(***************************************************************************)
(* Bounds of the model.                                                    *)
(***************************************************************************)
\* largest maxTokens handed to chunkText; proofread calls chunkText with the
\* default of 6000, which is scaled down here so that short documents split
MaxTokens == 2
\* longest document of the chunker specification, in characters
MaxDocLen == 7
\* longest list of corrections of the corrector specification
MaxCorrections == 2
\* longest list of suggestions of the annotator specification
MaxSuggestions == 2
\* longest array of items of the normalizer specification
MaxItems == 2

(***************************************************************************)
(* Characters and string primitives.                                       *)
(***************************************************************************)
NL == "\n"
\* the grave accent U+0060, which a TLA+ string cannot hold
Backtick == "U+0060"
SP == " "

\* what the regular expression class \s and String.trimEnd treat as blank
IsSpace(c) == c \in {SP, NL}

\* the regular expression class \d
IsDigit(c) == c \in {"0", "1", "2", "3", "4", "5", "6", "7", "8", "9"}

\* the regular expression atom . (no line terminator)
IsDot(c) == c # NL

\* the first position of lo..hi where hit holds, 0 if there is none
First(lo, hi, hit) ==
  CHOOSE q \in (lo..hi) \cup {0} :
    IF q = 0 THEN \A r \in lo..hi : ~hit[r] ELSE hit[q] /\ \A r \in lo..(q - 1) : ~hit[r]

\* the greatest position of a set of positions, 0 when empty
MaxOf(positions) ==
  IF positions = {} THEN 0 ELSE CHOOSE p \in positions : \A q \in positions : p >= q

\* s.startsWith(lit, p) with p a 1-based position
LitAt(s, p, lit) ==
  /\ p >= 1
  /\ p + Len(lit) - 1 <= Len(s)
  /\ \A k \in 1..Len(lit) : s[p + k - 1] = lit[k]

\* s.indexOf(sub) as a 1-based position, 0 when sub does not occur
IndexOf(s, sub) == First(1, Len(s) + 1, [p \in 1..(Len(s) + 1) |-> LitAt(s, p, sub)])

\* s.includes(sub)
Includes(s, sub) == IndexOf(s, sub) # 0

\* the characters of s from position p to the end
From(s, p) == SubSeq(s, p, Len(s))

\* text.split("\n")
RECURSIVE SplitLines(_)
SplitAt(text, p) ==
  IF p = 0 THEN <<text>>
  ELSE <<SubSeq(text, 1, p - 1)>> \o SplitLines(From(text, p + 1))

SplitLines(text) == SplitAt(text, IndexOf(text, <<NL>>))

\* lines.join("\n")
RECURSIVE JoinLines(_)
JoinLines(lines) ==
  IF lines = <<>> THEN <<>>
  ELSE IF Len(lines) = 1 THEN lines[1]
  ELSE lines[1] \o <<NL>> \o JoinLines(Tail(lines))

\* s.trimEnd()
TrimEnd(s) == SubSeq(s, 1, MaxOf({p \in 1..Len(s) : ~IsSpace(s[p])}))

\* the decimal digits of a natural number, as a template literal prints it
RECURSIVE Decimal(_)
Decimal(n) ==
  LET d == <<"0", "1", "2", "3", "4", "5", "6", "7", "8", "9">>[(n % 10) + 1]
  IN  IF n < 10 THEN <<d>> ELSE Decimal(n \div 10) \o <<d>>

(***************************************************************************)
(* Chunker.                                                                *)
(***************************************************************************)
\* Math.ceil(text.length / 4)
estimateTokens(text) == (Len(text) + 3) \div 4

\* ChunkLoop without the flush of the last chunk after the loop
RECURSIVE ChunkLoopNoTail(_, _, _, _, _, _)
ChunkLoopNoTail(lines, k, currentChunk, currentTokens, chunks, maxTokens) ==
  IF k > Len(lines) THEN chunks
  ELSE LET lineTokens == estimateTokens(lines[k])
           flush == currentTokens + lineTokens > maxTokens /\ Len(currentChunk) > 0
       IN  IF flush
           THEN ChunkLoopNoTail(lines, k + 1, <<lines[k]>>, lineTokens,
                                Append(chunks, JoinLines(currentChunk)), maxTokens)
           ELSE ChunkLoopNoTail(lines, k + 1, Append(currentChunk, lines[k]),
                                currentTokens + lineTokens, chunks, maxTokens)

\* ChunkLoop testing the limit before the line is counted
RECURSIVE ChunkLoopLateFlush(_, _, _, _, _, _)
ChunkLoopLateFlush(lines, k, currentChunk, currentTokens, chunks, maxTokens) ==
  IF k > Len(lines)
  THEN IF Len(currentChunk) > 0 THEN Append(chunks, JoinLines(currentChunk)) ELSE chunks
  ELSE LET lineTokens == estimateTokens(lines[k])
           flush == currentTokens > maxTokens /\ Len(currentChunk) > 0
       IN  IF flush
           THEN ChunkLoopLateFlush(lines, k + 1, <<lines[k]>>, lineTokens,
                                   Append(chunks, JoinLines(currentChunk)), maxTokens)
           ELSE ChunkLoopLateFlush(lines, k + 1, Append(currentChunk, lines[k]),
                                   currentTokens + lineTokens, chunks, maxTokens)

\* ChunkLoop testing the line alone against the limit
RECURSIVE ChunkLoopLineOnly(_, _, _, _, _, _)
ChunkLoopLineOnly(lines, k, currentChunk, currentTokens, chunks, maxTokens) ==
  IF k > Len(lines)
  THEN IF Len(currentChunk) > 0 THEN Append(chunks, JoinLines(currentChunk)) ELSE chunks
  ELSE LET lineTokens == estimateTokens(lines[k])
           flush == lineTokens > maxTokens /\ Len(currentChunk) > 0
       IN  IF flush
           THEN ChunkLoopLineOnly(lines, k + 1, <<lines[k]>>, lineTokens,
                                  Append(chunks, JoinLines(currentChunk)), maxTokens)
           ELSE ChunkLoopLineOnly(lines, k + 1, Append(currentChunk, lines[k]),
                                  currentTokens + lineTokens, chunks, maxTokens)

\* the for loop of chunkText over the lines from index k on
RECURSIVE ChunkLoop(_, _, _, _, _, _)
ChunkLoop(lines, k, currentChunk, currentTokens, chunks, maxTokens) ==
  IF k > Len(lines)
  THEN IF Len(currentChunk) > 0 THEN Append(chunks, JoinLines(currentChunk)) ELSE chunks
  ELSE LET lineTokens == estimateTokens(lines[k])
           flush == currentTokens + lineTokens > maxTokens /\ Len(currentChunk) > 0
       IN  IF flush
           THEN ChunkLoop(lines, k + 1, <<lines[k]>>, lineTokens,
                          Append(chunks, JoinLines(currentChunk)), maxTokens)
           ELSE ChunkLoop(lines, k + 1, Append(currentChunk, lines[k]),
                          currentTokens + lineTokens, chunks, maxTokens)

chunkText(text, maxTokens) ==
  IF estimateTokens(text) <= maxTokens THEN <<text>>
  ELSE ChunkLoop(SplitLines(text), 1, <<>>, 0, <<>>, maxTokens)

(***************************************************************************)
(* Findings.  A string-or-null field is <<>> for null and <<s>> for the    *)
(* string s.                                                               *)
(***************************************************************************)
Null == <<>>
Some(s) == <<s>>

\* Change: { line, from, to }
Change(line, from, to) == [line |-> line, from |-> from, to |-> to]

\* Suggestion: { id, line, text, suggested }
Suggestion(id, line, text, suggested) ==
  [id |-> id, line |-> line, text |-> text, suggested |-> suggested]

\* InsertDesc putting an item before the items of its line
RECURSIVE InsertDescBefore(_, _)
InsertDescBefore(sorted, x) ==
  IF sorted = <<>> THEN <<x>>
  ELSE IF sorted[Len(sorted)].line > x.line THEN Append(sorted, x)
  ELSE Append(InsertDescBefore(SubSeq(sorted, 1, Len(sorted) - 1), x), sorted[Len(sorted)])

\* [...items].sort((a, b) => b.line - a.line): stable, descending by line
RECURSIVE InsertDesc(_, _)
InsertDesc(sorted, x) ==
  IF sorted = <<>> THEN <<x>>
  ELSE IF sorted[Len(sorted)].line >= x.line THEN Append(sorted, x)
  ELSE Append(InsertDesc(SubSeq(sorted, 1, Len(sorted) - 1), x), sorted[Len(sorted)])

RECURSIVE SortDesc(_)
SortDesc(items) ==
  IF items = <<>> THEN <<>>
  ELSE InsertDesc(SortDesc(SubSeq(items, 1, Len(items) - 1)), items[Len(items)])

(***************************************************************************)
(* Corrector.                                                              *)
(***************************************************************************)
\* the replacement text of String.prototype.replace with a string pattern:
\* "$$", "$&", "$" with a backtick and "$" with an apostrophe are substitution
\* patterns, any other "$" is literal
RECURSIVE GetSubstitution(_, _, _, _)
GetSubstitution(matched, before, after, to) ==
  IF to = <<>> THEN <<>>
  ELSE IF to[1] = "$" /\ Len(to) >= 2 /\ to[2] \in {"$", "&", Backtick, "'"}
  THEN (CASE to[2] = "$" -> <<"$">>
          [] to[2] = "&" -> matched
          [] to[2] = Backtick -> before
          [] OTHER       -> after)
       \o GetSubstitution(matched, before, after, From(to, 3))
  ELSE <<to[1]>> \o GetSubstitution(matched, before, after, Tail(to))

\* line.replace(from, to): the first occurrence of from, if there is one
ReplaceAt(line, from, to, p) ==
  IF p = 0 THEN line
  ELSE SubSeq(line, 1, p - 1)
       \o GetSubstitution(from, SubSeq(line, 1, p - 1), From(line, p + Len(from)), to)
       \o From(line, p + Len(from))

Replace(line, from, to) == ReplaceAt(line, from, to, IndexOf(line, from))

\* the for loop of applyAutoCorrections over the sorted corrections
RECURSIVE CorrectLoop(_, _)
CorrectLoop(lines, sorted) ==
  IF sorted = <<>> THEN lines
  ELSE LET correction == sorted[1]
           lineIndex == correction.line - 1
       IN  IF lineIndex >= 0 /\ lineIndex < Len(lines)
           THEN CorrectLoop([lines EXCEPT ![lineIndex + 1] =
                               Replace(lines[lineIndex + 1], correction.from, correction.to)],
                            Tail(sorted))
           ELSE CorrectLoop(lines, Tail(sorted))

applyAutoCorrections(text, corrections) ==
  JoinLines(CorrectLoop(SplitLines(text), SortDesc(corrections)))

(***************************************************************************)
(* File names.                                                             *)
(***************************************************************************)
MdExt == <<".", "m", "d">>
ProofreadExt == <<".", "p", "r", "o", "o", "f", "r", "e", "a", "d", ".", "m", "d">>
FinalExt == <<".", "f", "i", "n", "a", "l", ".", "m", "d">>

\* fileName.replace(/\.md$/, ".proofread.md")
CorrectedName(name) ==
  IF Len(name) >= Len(MdExt) /\ LitAt(name, Len(name) - Len(MdExt) + 1, MdExt)
  THEN SubSeq(name, 1, Len(name) - Len(MdExt)) \o ProofreadExt
  ELSE name

\* fileName.replace(".proofread.md", ".final.md")
FinalName(name) == Replace(name, ProofreadExt, FinalExt)

(***************************************************************************)
(* Annotator.                                                              *)
(***************************************************************************)
CommentOpen == <<"<", "!", "-", "-">>
CommentClose == <<"-", "-", ">">>
ReviewWord == <<"R", "E", "V", "I", "E", "W", ":">>
SuggestedWord == <<"S", "u", "g", "g", "e", "s", "t", "e", "d", ":">>
Quote == "\""

\* the template literal of the marker; the Suggested part is left out when
\* suggestion.suggested is falsy (null or the empty string)
Comment(suggestion) ==
  CommentOpen \o <<SP, "[">> \o suggestion.id \o <<"]", SP>> \o ReviewWord \o <<SP>>
  \o suggestion.text
  \o (IF suggestion.suggested # Null /\ suggestion.suggested[1] # <<>>
      THEN <<SP>> \o SuggestedWord \o <<SP, Quote>> \o suggestion.suggested[1] \o <<Quote>>
      ELSE <<>>)
  \o <<SP>> \o CommentClose

\* the for loop of insertSuggestionComments over the sorted suggestions
RECURSIVE InsertLoop(_, _)
InsertLoop(lines, sorted) ==
  IF sorted = <<>> THEN lines
  ELSE LET suggestion == sorted[1]
           lineIndex == suggestion.line - 1
       IN  IF lineIndex >= 0 /\ lineIndex < Len(lines)
           THEN InsertLoop([lines EXCEPT ![lineIndex + 1] =
                              lines[lineIndex + 1] \o <<SP>> \o Comment(suggestion)],
                           Tail(sorted))
           ELSE InsertLoop(lines, Tail(sorted))

insertSuggestionComments(text, suggestions) ==
  JoinLines(InsertLoop(SplitLines(text), SortDesc(suggestions)))

(***************************************************************************)
(* Resolver.  The marker pattern commentRegex is matched with             *)
(* backtracking; positions are 1-based, an end position is the position    *)
(* after the last matched character, and 0 means no match.                 *)
(***************************************************************************)
\* commentRegex, with Q for the double quote:
\*   \s*<!--\s*\[(S\d+)\]\s*REVIEW:\s*(.*?)(?:\s*Suggested:\s*Q([^Q]*)Q)?\s*-->

\* a greedy \s* from p: the position after the run of blanks
SkipSpace(s, p) == First(p, Len(s) + 1, [q \in p..(Len(s) + 1) |-> q > Len(s) \/ ~IsSpace(s[q])])

\* a greedy \d* from p: the position after the run of digits
SkipDigits(s, p) == First(p, Len(s) + 1, [q \in p..(Len(s) + 1) |-> q > Len(s) \/ ~IsDigit(s[q])])

CharAt(s, p, c) == p >= 1 /\ p <= Len(s) /\ s[p] = c

\* --> at r, after the blanks of \s*: the end position
MatchClose(s, r) == IF LitAt(s, r, CommentClose) THEN r + Len(CommentClose) ELSE 0

\* Q([^Q]*)Q with the opening quote at r2 and the next quote r3 characters
\* after it, then \s*-->: the end position and the captured text
MatchQuoted(s, r2, r3) ==
  IF CharAt(s, r2, Quote) /\ r3 # 0
  THEN [end |-> MatchClose(s, SkipSpace(s, r2 + r3 + 1)),
        suggested |-> Some(SubSeq(s, r2 + 1, r2 + r3 - 1))]
  ELSE [end |-> 0, suggested |-> Null]

\* Suggested:\s*Q([^Q]*)Q\s*--> at r1, after the blanks of \s*
MatchSuggestedAt(s, r1, r2) ==
  IF LitAt(s, r1, SuggestedWord)
  THEN MatchQuoted(s, r2, IndexOf(From(s, r2 + 1), <<Quote>>))
  ELSE [end |-> 0, suggested |-> Null]

\* the optional group taken: \s*Suggested:\s*Q([^Q]*)Q\s*--> at q
MatchSuggested(s, r1) == MatchSuggestedAt(s, r1, SkipSpace(s, r1 + Len(SuggestedWord)))

\* the optional group is tried first, then the pattern without it
WithOrWithout(s, q, g) ==
  IF g.end # 0 THEN g
  ELSE [end |-> MatchClose(s, SkipSpace(s, q)), suggested |-> Null]

\* (?:\s*Suggested:\s*Q([^Q]*)Q)?\s*--> at q
MatchRest(s, q) == WithOrWithout(s, q, MatchSuggested(s, SkipSpace(s, q)))

NoMatch == [end |-> 0, id |-> <<>>, description |-> <<>>, suggested |-> Null]

\* a greedy .* from p: the position after the run of characters . matches
SkipDots(s, p) == First(p, Len(s) + 1, [q \in p..(Len(s) + 1) |-> q > Len(s) \/ ~IsDot(s[q])])

\* the match with the description s[e..q-1] and the rest r from q on
LazyResult(s, id, e, q, r) ==
  [end |-> r.end, id |-> id, description |-> SubSeq(s, e, q - 1), suggested |-> r.suggested]

\* q is the first position from e on where the rest matches, 0 if none
LazyAt(s, id, e, q) == IF q = 0 THEN NoMatch ELSE LazyResult(s, id, e, q, MatchRest(s, q))

\* (.*?) from e followed by the rest: the shortest description of characters
\* . matches that lets the rest match
MatchLazy(s, id, e) ==
  LazyAt(s, id, e, First(e, SkipDots(s, e),
                         [q \in e..SkipDots(s, e) |-> MatchRest(s, q).end # 0]))

\* REVIEW:\s*(.*?)... at d
MatchReview(s, id, d) ==
  IF LitAt(s, d, ReviewWord)
  THEN MatchLazy(s, id, SkipSpace(s, d + Len(ReviewWord)))
  ELSE NoMatch

\* (S\d+)\]\s*REVIEW:... with the S at b and the digits ending before c
MatchId(s, b, c) ==
  IF CharAt(s, b, "S") /\ c > b + 1 /\ CharAt(s, c, "]")
  THEN MatchReview(s, SubSeq(s, b, c - 1), SkipSpace(s, c + 1))
  ELSE NoMatch

\* \[(S\d+)\]... at b
MatchBracket(s, b) ==
  IF CharAt(s, b, "[") THEN MatchId(s, b + 1, SkipDigits(s, b + 2)) ELSE NoMatch

\* <!--\s*\[... at a
MatchOpen(s, a) ==
  IF LitAt(s, a, CommentOpen) THEN MatchBracket(s, SkipSpace(s, a + Len(CommentOpen)))
  ELSE NoMatch

\* commentRegex anchored at p
MatchAt(s, p) == MatchOpen(s, SkipSpace(s, p))

\* the match anchored at start, no match if start is 0
ExecAt(s, start) ==
  IF start = 0 THEN [start |-> 0, m |-> NoMatch] ELSE [start |-> start, m |-> MatchAt(s, start)]

\* commentRegex.exec(line) with lastIndex = p - 1: the leftmost match at or
\* after p
Exec(s, p) == ExecAt(s, First(p, Len(s), [q \in p..Len(s) |-> MatchAt(s, q).end # 0]))

\* the while loop of applySuggestions: every match of the line, left to right
RECURSIVE CommentsFrom(_, _)
PushComment(line, x) ==
  IF x.start = 0 THEN <<>>
  ELSE <<[fullMatch |-> SubSeq(line, x.start, x.m.end - 1), id |-> x.m.id,
          description |-> x.m.description, suggested |-> x.m.suggested]>>
       \o CommentsFrom(line, x.m.end)

CommentsFrom(line, p) == PushComment(line, Exec(line, p))

commentsOnLine(line) == CommentsFrom(line, 1)

\* IsAccepted without the all-sentinel
IsAcceptedNoAll(acceptedIds, id) == \E k \in 1..Len(acceptedIds) : acceptedIds[k] = id

\* acceptedIds.includes(comment.id) || acceptedIds.includes(ALL)
IsAccepted(acceptedIds, id) ==
  \/ \E k \in 1..Len(acceptedIds) : acceptedIds[k] = id
  \/ \E k \in 1..Len(acceptedIds) : acceptedIds[k] = <<"A", "L", "L">>

\* ResolveComment putting the suggested text of an accepted comment in its place
ResolveCommentApplies(acc, comment, accepted) ==
  [processedLine |-> Replace(acc.processedLine, comment.fullMatch,
                             IF accepted /\ comment.suggested # Null
                             THEN comment.suggested[1] ELSE <<>>),
   applied |-> IF accepted THEN Append(acc.applied, comment.id) ELSE acc.applied,
   removed |-> IF accepted THEN acc.removed ELSE Append(acc.removed, comment.id)]

\* one comment is classified and removed from the line
ResolveComment(acc, comment, accepted) ==
  [processedLine |-> Replace(acc.processedLine, comment.fullMatch, <<>>),
   applied |-> IF accepted THEN Append(acc.applied, comment.id) ELSE acc.applied,
   removed |-> IF accepted THEN acc.removed ELSE Append(acc.removed, comment.id)]

\* the inner for loop over the comments of a line
RECURSIVE ResolveLine(_, _, _)
ResolveLine(acc, comments, acceptedIds) ==
  IF comments = <<>> THEN acc
  ELSE ResolveLine(ResolveComment(acc, comments[1], IsAccepted(acceptedIds, comments[1].id)),
                   Tail(comments), acceptedIds)

\* a line with comments is pushed without them and trimmed
PushProcessed(acc, r) ==
  [processedLines |-> Append(acc.processedLines, TrimEnd(r.processedLine)),
   applied |-> r.applied, removed |-> r.removed]

\* the body of the outer for loop: a line without comments is pushed as it is
ProcessLine(acc, line, comments, acceptedIds) ==
  IF Len(comments) > 0
  THEN PushProcessed(acc, ResolveLine([processedLine |-> line, applied |-> acc.applied,
                                       removed |-> acc.removed], comments, acceptedIds))
  ELSE [acc EXCEPT !.processedLines = Append(@, line)]

\* the outer for loop over the lines of the annotated document
RECURSIVE ResolveLoop(_, _, _)
ResolveLoop(acc, lines, acceptedIds) ==
  IF lines = <<>> THEN acc
  ELSE ResolveLoop(ProcessLine(acc, lines[1], commentsOnLine(lines[1]), acceptedIds),
                   Tail(lines), acceptedIds)

\* the final text and the two id lists
ApplyResult(r) ==
  [finalText |-> JoinLines(r.processedLines), applied |-> r.applied, removed |-> r.removed]

applySuggestions(text, acceptedIds) ==
  ApplyResult(ResolveLoop([processedLines |-> <<>>, applied |-> <<>>, removed |-> <<>>],
                          SplitLines(text), acceptedIds))

\* id.toUpperCase() in main of apply-suggestions.ts
LowerCase == <<"a", "b", "c", "d", "e", "f", "g", "h", "i", "j", "k", "l", "m",
               "n", "o", "p", "q", "r", "s", "t", "u", "v", "w", "x", "y", "z">>
UpperCase == <<"A", "B", "C", "D", "E", "F", "G", "H", "I", "J", "K", "L", "M",
               "N", "O", "P", "Q", "R", "S", "T", "U", "V", "W", "X", "Y", "Z">>
ToUpperChar(c) ==
  IF \E k \in 1..26 : LowerCase[k] = c
  THEN UpperCase[CHOOSE k \in 1..26 : LowerCase[k] = c]
  ELSE c
toUpperCase(s) == [k \in 1..Len(s) |-> ToUpperChar(s[k])]

(***************************************************************************)
(* Finding normalizer (proofreadChunk).  A response of the checker is an   *)
(* error or an array of items; a missing text field of an item is Null, a  *)
(* missing line is NoLine, and an item that is the JSON value null has     *)
(* isNull set.                                                             *)
(***************************************************************************)
Item(type, line, from, to, reason) ==
  [isNull |-> FALSE, type |-> type, line |-> line, from |-> from, to |-> to,
   reason |-> reason]

\* the line of an item without a line: it is the index of no line
NoLine == 0 - 1

\* the item null
NullItem == [Item("", NoLine, Null, Null, Null) EXCEPT !.isNull = TRUE]

Undefined == <<"u", "n", "d", "e", "f", "i", "n", "e", "d">>
DefaultText == <<"S", "t", "y", "l", "e", "/", "c", "l", "a", "r", "i", "t", "y", " ", "s", "u", "g", "g", "e", "s", "t", "i", "o", "n">>

\* String.prototype.replace converts a missing pattern or replacement to text
ToStr(field) == IF field = Null THEN Undefined ELSE field[1]

\* the for loop over the items: the auto-corrections of the array, in order
RECURSIVE NormalizeCorrections(_)
NormalizeCorrections(items) ==
  IF items = <<>> THEN <<>>
  ELSE (IF items[1].type = "auto-correction"
        THEN <<Change(items[1].line, ToStr(items[1].from), ToStr(items[1].to))>>
        ELSE <<>>)
       \o NormalizeCorrections(Tail(items))

\* the for loop over the items: the suggestions of the array, in order, with
\* the empty id they carry until proofread numbers them
RECURSIVE NormalizeSuggestions(_)
NormalizeSuggestions(items) ==
  IF items = <<>> THEN <<>>
  ELSE (IF items[1].type = "suggestion"
        THEN <<Suggestion(<<>>, items[1].line,
                          IF items[1].reason = Null \/ items[1].reason[1] = <<>>
                          THEN DefaultText ELSE items[1].reason[1],
                          items[1].to)>>
        ELSE <<>>)
       \o NormalizeSuggestions(Tail(items))

\* item.type throws for the item null, and the catch around the call
\* returns two empty lists
Throws(items) == \E k \in 1..Len(items) : items[k].isNull

\* proofreadChunk: a failed call, an unparseable response, a response that
\* is not an array and an array with the item null all give zero findings
proofreadChunk(response) ==
  IF response.kind = "array" /\ ~Throws(response.items)
  THEN [autoCorrections |-> NormalizeCorrections(response.items),
        suggestions |-> NormalizeSuggestions(response.items)]
  ELSE [autoCorrections |-> <<>>, suggestions |-> <<>>]

(***************************************************************************)
(* Spell checker (spellcheck).  aspell is outside the program: its report  *)
(* is a sequence of entries, one for every line of its output that matches *)
(* the pattern of a misspelling with suggestions, in the order of the      *)
(* document lines.  Documents hold no link, no URL and no inline code, so  *)
(* that cleanLine differs from the line by the emphasis markers only.      *)
(***************************************************************************)
AspellEntry(line, misspelled, suggestions) ==
  [line |-> line, misspelled |-> misspelled, suggestions |-> suggestions]

ToLowerChar(c) ==
  IF \E k \in 1..26 : UpperCase[k] = c
  THEN LowerCase[CHOOSE k \in 1..26 : UpperCase[k] = c]
  ELSE c
toLowerCase(s) == [k \in 1..Len(s) |-> ToLowerChar(s[k])]

IsUpper(c) == \E k \in 1..26 : UpperCase[k] = c
IsLower(c) == \E k \in 1..26 : LowerCase[k] = c

\* line.match(/[\\{}$U+0060]/) || line.match(/^U+0060{3}/) || line.match(/^\s*[-*]\s*\[/)
SkipLine(line) ==
  \/ \E q \in 1..Len(line) : line[q] \in {"\\", "{", "}", "$", Backtick}
  \/ LitAt(line, 1, <<Backtick, Backtick, Backtick>>)
  \/ /\ CharAt(line, SkipSpace(line, 1), "-") \/ CharAt(line, SkipSpace(line, 1), "*")
     /\ CharAt(line, SkipSpace(line, SkipSpace(line, 1) + 1), "[")

\* line.replace(/[_*]+/g, " "): every run of emphasis markers becomes a blank
RECURSIVE CleanLine(_)
CleanLine(line) ==
  IF line = <<>> THEN <<>>
  ELSE IF line[1] \in {"_", "*"}
  THEN IF Len(line) >= 2 /\ line[2] \in {"_", "*"}
       THEN CleanLine(Tail(line))
       ELSE <<SP>> \o CleanLine(Tail(line))
  ELSE <<line[1]>> \o CleanLine(Tail(line))

\* !cleanLine.trim()
IsBlank(line) == \A q \in 1..Len(line) : IsSpace(line[q])

\* aspell is run on the line
Checked(line) == ~SkipLine(line) /\ ~IsBlank(CleanLine(line))

\* s.slice(0, 3)
Slice3(s) == SubSeq(s, 1, IF Len(s) < 3 THEN Len(s) ELSE 3)

Abs(n) == IF n < 0 THEN 0 - n ELSE n

\* isSimilar of spellcheck
IsSimilar(misspelled, suggestion) ==
  /\ Abs(Len(misspelled) - Len(suggestion)) <= 2
  /\ \/ Includes(toLowerCase(misspelled), Slice3(toLowerCase(suggestion)))
     \/ Includes(toLowerCase(suggestion), Slice3(toLowerCase(misspelled)))

\* the tests an entry passes before it is pushed
IsTypo(line, entry) ==
  /\ ~(entry.misspelled = toUpperCase(entry.misspelled) /\ Len(entry.misspelled) > 1)
  /\ ~(/\ Len(entry.misspelled) >= 2
       /\ IsUpper(entry.misspelled[1])
       /\ \A q \in 2..Len(entry.misspelled) : IsLower(entry.misspelled[q]))
  /\ Len(entry.misspelled) > 2
  /\ \A q \in 1..Len(entry.misspelled) : ~IsDigit(entry.misspelled[q])
  /\ Len(entry.suggestions) > 0
  /\ entry.suggestions[1] # <<>>
  /\ IsSimilar(entry.misspelled, entry.suggestions[1])
  /\ Includes(line, entry.misspelled)

\* the loop over the lines and over the output of aspell
RECURSIVE SpellLoop(_, _)
SpellLoop(lines, report) ==
  IF report = <<>> THEN <<>>
  ELSE (IF IsTypo(lines[report[1].line], report[1])
        THEN <<Change(report[1].line, report[1].misspelled, report[1].suggestions[1])>>
        ELSE <<>>)
       \o SpellLoop(lines, Tail(report))

\* the filter on seen: the first correction of every line and word
RECURSIVE Deduplicate(_, _)
Deduplicate(corrections, seen) ==
  IF corrections = <<>> THEN <<>>
  ELSE IF <<corrections[1].line, corrections[1].from>> \in seen
  THEN Deduplicate(Tail(corrections), seen)
  ELSE <<corrections[1]>>
       \o Deduplicate(Tail(corrections),
                      seen \cup {<<corrections[1].line, corrections[1].from>>})

MisspellingWord == <<"P", "o", "s", "s", "i", "b", "l", "e", " ", "m", "i", "s", "s", "p", "e", "l", "l", "i", "n", "g", ":">>

\* uniqueCorrections.map(...): every finding is a suggestion for review
SpellSuggestions(corrections) ==
  [k \in 1..Len(corrections) |->
     Suggestion(<<"S">> \o Decimal(k), corrections[k].line,
                MisspellingWord \o <<SP, Quote>> \o corrections[k].from \o <<Quote>>,
                Some(corrections[k].to))]

\* the suggestions of spellcheck for a document and a report of aspell
spellcheck(text, report) ==
  SpellSuggestions(Deduplicate(SpellLoop(SplitLines(text), report), {}))

(***************************************************************************)
(* Command line of proofread.ts.                                           *)
(***************************************************************************)
Llm == <<"l", "l", "m">>
SpellcheckWord == <<"s", "p", "e", "l", "l", "c", "h", "e", "c", "k">>
EngineFlag == <<"-", "-", "e", "n", "g", "i", "n", "e">>
LevelFlag == <<"-", "-", "l", "e", "v", "e", "l">>

\* args.indexOf(word) as a 1-based position, 0 when absent
ArgIndex(args, word) == First(1, Len(args), [k \in 1..Len(args) |-> args[k] = word])

\* args[index + 1] is there and is not the empty string
HasValue(args, k) == k # 0 /\ k + 1 <= Len(args) /\ args[k + 1] # <<>>

\* the engine main settles on: the word after --engine, or llm
EngineOf(args) ==
  IF HasValue(args, ArgIndex(args, EngineFlag)) THEN args[ArgIndex(args, EngineFlag) + 1] ELSE Llm

\* the value of a run of decimal digits
RECURSIVE DigitsValue(_)
DigitsValue(digits) ==
  IF digits = <<>> THEN 0
  ELSE 10 * DigitsValue(SubSeq(digits, 1, Len(digits) - 1))
       + (CHOOSE d \in 0..9 : Decimal(d) = <<digits[Len(digits)]>>)

\* parseInt(s, 10) from the sign at b on: Null is NaN
ParseIntAt(s, neg, b) ==
  IF SkipDigits(s, b) > b
  THEN Some((IF neg THEN 0 - 1 ELSE 1) * DigitsValue(SubSeq(s, b, SkipDigits(s, b) - 1)))
  ELSE Null

ParseIntFrom(s, a) ==
  ParseIntAt(s, CharAt(s, a, "-"), IF CharAt(s, a, "-") \/ CharAt(s, a, "+") THEN a + 1 ELSE a)

ParseInt(s) == ParseIntFrom(s, SkipSpace(s, 1))

\* the level main settles on: the number after --level, or 2
LevelOf(args) ==
  IF HasValue(args, ArgIndex(args, LevelFlag))
  THEN ParseInt(args[ArgIndex(args, LevelFlag) + 1])
  ELSE Some(2)

\* main exits with the usage or an error before it calls an engine
Rejected(args) ==
  \/ Len(args) = 0
  \/ EngineOf(args) \notin {Llm, SpellcheckWord}
  \/ LevelOf(args) # Null /\ (LevelOf(args)[1] < 1 \/ LevelOf(args)[1] > 3)

(***************************************************************************)
(* Inputs of the pipeline: documents, checker responses, command lines.    *)
(***************************************************************************)
Docs ==
  { <<"a", "b">>,
    <<"a", "b", " ", "\n", "c", "d">>,
    <<"a", "\n", "\n", "a", "b", "\n", "b">>,
    <<"<", "!", "-", "-", " ", "[", "S", "7", "]", " ", "R", "E", "V", "I", "E", "W", ":", " ", "q", " ", "-", "-", ">", "\n", "a", "b">> }

Failure(kind) == [kind |-> kind, items |-> <<>>]
Array(items) == [kind |-> "array", items |-> items]

Responses ==
  { Failure("apiError"), Failure("parseError"), Failure("notArray"),
    Array(<<>>),
    Array(<<Item("suggestion", 1, Some(<<"a">>), Some(<<"y">>), Some(<<"x">>))>>),
    Array(<<Item("auto-correction", 1, Some(<<"a">>), Some(<<"x">>), Null),
            Item("suggestion", 2, Null, Null, Some(<<"x">>))>>),
    Array(<<Item("suggestion", 1, Null, Null, Some(<<"x">>)),
            Item("suggestion", 1, Null, Some(<<"y">>), Null)>>),
    Array(<<Item("suggestion", 2, Null, Null, Some(<<"x", "\n", "z">>))>>),
    Array(<<Item("auto-correction", 1, Some(<<"b">>), Some(<<"b", "\n", "z">>), Null),
            Item("other", 1, Null, Null, Null)>>),
    Array(<<Item("suggestion", 3, Null, Some(<<>>), Some(<<"w">>)),
            Item("suggestion", 0, Null, Null, Some(<<"w">>))>>) }

\* the arguments after the file name: ids in any case, or the word all
ArgLists ==
  { <<<<"a", "l", "l">>>>, <<<<"s", "1">>>>, <<<<"S", "2">>, <<"s", "3">>>>, <<<<"S", "9">>>> }

(***************************************************************************)
(* The pipeline: proofread, then applySuggestions on the file it wrote.    *)
(***************************************************************************)
VARIABLES
  pc,                 \* the position of the run: "launch", "main", "start", "loop",
                      \* "spellcheck", "written", "resolved", "exited", or the
                      \* position of a function run on its own
  text,               \* the document read by proofread
  maxTokens,          \* the chunk limit
  chunks,             \* chunkText(text)
  i,                  \* the loop index of proofread
  currentLine,
  suggestionCounter,
  allAutoCorrections,
  allSuggestions,
  prompts,            \* the chunk and startLine of every checker call so far
  responses,          \* the checker's response to every call so far
  correctedText,      \* the intermediate document written by proofread
  acceptedIds,        \* the upper-cased ids given to applySuggestions
  result,             \* finalText, applied and removed of applySuggestions
  parsed,             \* the matches of commentRegex in a marker parsed on its own
  apiKey,             \* GOOGLE_AI_API_KEY is set in the environment
  argv,               \* process.argv.slice(2) of proofread.ts
  engine,             \* the engine chosen by main
  exitCode,           \* the exit code of the process once pc is "exited"
  fileName,           \* basename of the file read by proofread or spellcheck
  correctedFileName,  \* the name of the intermediate file
  finalFileName       \* the name of the file written by applySuggestions

vars == <<pc, text, maxTokens, chunks, i, currentLine, suggestionCounter,
          allAutoCorrections, allSuggestions, prompts, responses,
          correctedText, acceptedIds, result, parsed,
          apiKey, argv, engine, exitCode, fileName, correctedFileName, finalFileName>>

\* the process of proofread.ts and the three file names
procVars == <<apiKey, argv, engine, exitCode>>
nameVars == <<fileName, correctedFileName, finalFileName>>

NoResult == [finalText |-> <<>>, applied |-> <<>>, removed |-> <<>>]

\* nothing has run yet
Fresh ==
  /\ chunks = <<>>
  /\ i = 0
  /\ currentLine = 1
  /\ suggestionCounter = 1
  /\ prompts = <<>>
  /\ responses = <<>>
  /\ correctedText = <<>>
  /\ acceptedIds = <<>>
  /\ result = NoResult
  /\ parsed = <<>>
  /\ exitCode = 0
  /\ correctedFileName = <<>>
  /\ finalFileName = <<>>

\* proofread called on a.md, the key being set
Direct ==
  /\ apiKey = TRUE
  /\ argv = <<>>
  /\ engine = Llm
  /\ fileName = <<"a", ".", "m", "d">>

Init ==
  /\ pc = "start"
  /\ text \in Docs
  /\ maxTokens \in 1..MaxTokens
  /\ allAutoCorrections = <<>>
  /\ allSuggestions = <<>>
  /\ Fresh
  /\ Direct

\* proofread up to the loop: the document is chunked
Chunk ==
  /\ pc = "start"
  /\ correctedFileName' = CorrectedName(fileName)
  /\ chunks' = chunkText(text, maxTokens)
  /\ pc' = "loop"
  /\ UNCHANGED <<text, maxTokens, i, currentLine, suggestionCounter,
                 allAutoCorrections, allSuggestions, prompts, responses,
                 correctedText, acceptedIds, result, parsed,
                 procVars, fileName, finalFileName>>

\* AssignIds restarting the numbering with every chunk
AssignIdsPerChunk(suggestions, counter) ==
  [k \in 1..Len(suggestions) |->
     [suggestions[k] EXCEPT !.id = <<"S">> \o Decimal(k)]]

\* the suggestions of one chunk, numbered from counter on
AssignIds(suggestions, counter) ==
  [k \in 1..Len(suggestions) |->
     [suggestions[k] EXCEPT !.id = <<"S">> \o Decimal(counter + k - 1)]]

\* AdvanceLine counting the line breaks of the chunk instead of its lines
AdvanceLineByBreaks(line, chunk) == line + Len(SplitLines(chunk)) - 1

\* currentLine += chunks[i].split("\n").length
AdvanceLine(line, chunk) == line + Len(SplitLines(chunk))

\* ProofreadChunk that keeps only the findings of the latest call
ProofreadChunkForgets ==
  /\ pc = "loop"
  /\ i < Len(chunks)
  /\ \E response \in Responses :
       LET found == proofreadChunk(response)
       IN  /\ prompts' = Append(prompts, [text |-> chunks[i + 1], startLine |-> currentLine])
           /\ responses' = Append(responses, response)
           /\ allAutoCorrections' = found.autoCorrections
           /\ allSuggestions' = AssignIds(found.suggestions, suggestionCounter)
           /\ suggestionCounter' = suggestionCounter + Len(found.suggestions)
  /\ currentLine' = AdvanceLine(currentLine, chunks[i + 1])
  /\ i' = i + 1
  /\ UNCHANGED <<pc, text, maxTokens, chunks, correctedText, acceptedIds, result, parsed,
                 procVars, nameVars>>

\* one iteration of the loop of proofread: the checker is called for
\* chunks[i] and answers with any response
ProofreadChunk ==
  /\ pc = "loop"
  /\ i < Len(chunks)
  /\ \E response \in Responses :
       LET found == proofreadChunk(response)
       IN  /\ prompts' = Append(prompts, [text |-> chunks[i + 1], startLine |-> currentLine])
           /\ responses' = Append(responses, response)
           /\ allAutoCorrections' = allAutoCorrections \o found.autoCorrections
           /\ allSuggestions' = allSuggestions \o AssignIds(found.suggestions, suggestionCounter)
           /\ suggestionCounter' = suggestionCounter + Len(found.suggestions)
  /\ currentLine' = AdvanceLine(currentLine, chunks[i + 1])
  /\ i' = i + 1
  /\ UNCHANGED <<pc, text, maxTokens, chunks, correctedText, acceptedIds, result, parsed,
                 procVars, nameVars>>

\* proofread after the loop: corrections, markers, and the file is written
WriteCorrected ==
  /\ pc = "loop"
  /\ i = Len(chunks)
  /\ correctedText' = insertSuggestionComments(
                        applyAutoCorrections(text, allAutoCorrections), allSuggestions)
  /\ pc' = "written"
  /\ UNCHANGED <<text, maxTokens, chunks, i, currentLine, suggestionCounter,
                 allAutoCorrections, allSuggestions, prompts, responses,
                 acceptedIds, result, parsed, procVars, nameVars>>

\* main and applySuggestions of apply-suggestions.ts on the written file
ApplySuggestions ==
  /\ pc = "written"
  /\ \E args \in ArgLists :
       /\ acceptedIds' = [k \in 1..Len(args) |-> toUpperCase(args[k])]
       /\ result' = applySuggestions(correctedText, acceptedIds')
  /\ finalFileName' = FinalName(correctedFileName)
  /\ pc' = "resolved"
  /\ UNCHANGED <<text, maxTokens, chunks, i, currentLine, suggestionCounter,
                 allAutoCorrections, allSuggestions, prompts, responses,
                 correctedText, parsed, procVars, fileName, correctedFileName>>

Next == Chunk \/ ProofreadChunk \/ WriteCorrected \/ ApplySuggestions

Spec == Init /\ [][Next]_vars

(***************************************************************************)
(* The process of proofread.ts: the module is loaded, main reads the       *)
(* command line and runs an engine on the file, which exists.              *)
(***************************************************************************)
CliArgs ==
  { <<>>,
    <<<<"a", ".", "m", "d">>>>,
    <<<<"a", ".", "m", "d">>, <<"-", "-", "e", "n", "g", "i", "n", "e">>, <<"s", "p", "e", "l", "l", "c", "h", "e", "c", "k">>>>,
    <<<<"a", ".", "m", "d">>, <<"-", "-", "l", "e", "v", "e", "l">>, <<"1">>, <<"-", "-", "e", "n", "g", "i", "n", "e">>, <<"l", "l", "m">>>>,
    <<<<"a", ".", "m", "d">>, <<"-", "-", "e", "n", "g", "i", "n", "e">>, <<"x">>>>,
    <<<<"a", ".", "m", "d">>, <<"-", "-", "l", "e", "v", "e", "l">>, <<"4">>>>,
    <<<<"a", ".", "m", "d">>, <<"-", "-", "e", "n", "g", "i", "n", "e">>, <<"s", "p", "e", "l", "l", "c", "h", "e", "c", "k">>, <<"-", "-", "l", "e", "v", "e", "l">>, <<"x">>>>,
    <<<<"a", ".", "m", "d">>, <<"-", "-", "e", "n", "g", "i", "n", "e">>>> }

MainDocs == { <<"a", "b", "c", "c">>, <<"a", "b", "c", "c", "\n", "_", "\n", "U", "S", "A", " ", "a", "b", "c", "c">> }

AspellReports ==
  { <<>>,
    <<AspellEntry(1, <<"a", "b", "c", "c">>, <<<<"a", "b", "c">>, <<"x">>>>)>>,
    <<AspellEntry(1, <<"a", "b", "c", "c">>, <<<<"a", "b", "c">>>>), AspellEntry(1, <<"a", "b", "c", "c">>, <<<<"a", "b", "c", "d">>>>)>>,
    <<AspellEntry(1, <<"a", "b", "c", "c">>, <<<<"a", "b", "c">>>>), AspellEntry(3, <<"U", "S", "A">>, <<<<"U", "S", "B">>>>)>>,
    <<AspellEntry(3, <<"U", "S", "A">>, <<<<"U", "S", "B">>>>), AspellEntry(3, <<"a", "b", "c", "c">>, <<<<"a", "b", "c", "d", "e", "f", "g">>>>)>>,
    <<AspellEntry(1, <<"a", "b", "c", "c">>, <<<<"a", "b", "c">>>>), AspellEntry(3, <<"a", "b", "c", "c">>, <<<<"A", "b", "c">>>>)>>,
    <<AspellEntry(1, <<"x", "y", "z", "z">>, <<<<"x", "y", "z">>>>)>> }

InitMain ==
  /\ pc = "launch"
  /\ apiKey \in BOOLEAN
  /\ argv \in CliArgs
  /\ engine = Llm
  /\ fileName = <<>>
  /\ text \in MainDocs
  /\ maxTokens \in 1..MaxTokens
  /\ allAutoCorrections = <<>>
  /\ allSuggestions = <<>>
  /\ Fresh

\* the statements of the module before main is called: the key is tested
LoadModule ==
  /\ pc = "launch"
  /\ IF ~apiKey
     THEN pc' = "exited" /\ exitCode' = 1
     ELSE pc' = "main" /\ UNCHANGED exitCode
  /\ UNCHANGED <<text, maxTokens, chunks, i, currentLine, suggestionCounter,
                 allAutoCorrections, allSuggestions, prompts, responses,
                 correctedText, acceptedIds, result, parsed,
                 apiKey, argv, engine, nameVars>>

\* main up to the call of the engine
Main ==
  /\ pc = "main"
  /\ IF Rejected(argv)
     THEN pc' = "exited" /\ exitCode' = 1 /\ UNCHANGED <<engine, fileName>>
     ELSE /\ engine' = EngineOf(argv)
          /\ fileName' = argv[1]
          /\ pc' = IF engine' = SpellcheckWord THEN "spellcheck" ELSE "start"
          /\ UNCHANGED exitCode
  /\ UNCHANGED <<text, maxTokens, chunks, i, currentLine, suggestionCounter,
                 allAutoCorrections, allSuggestions, prompts, responses,
                 correctedText, acceptedIds, result, parsed,
                 apiKey, argv, correctedFileName, finalFileName>>

\* spellcheck: aspell is missing, or its report is turned into suggestions
\* and the annotated document is written
Spellcheck ==
  /\ pc = "spellcheck"
  /\ correctedFileName' = CorrectedName(fileName)
  /\ \E available \in BOOLEAN :
       IF ~available
       THEN pc' = "exited" /\ exitCode' = 1 /\ UNCHANGED <<allSuggestions, correctedText>>
       ELSE \E report \in AspellReports :
              /\ \A k \in 1..Len(report) :
                   /\ report[k].line \in 1..Len(SplitLines(text))
                   /\ Checked(SplitLines(text)[report[k].line])
              /\ allSuggestions' = spellcheck(text, report)
              /\ correctedText' = insertSuggestionComments(text, allSuggestions')
              /\ pc' = "written"
              /\ UNCHANGED exitCode
  /\ UNCHANGED <<text, maxTokens, chunks, i, currentLine, suggestionCounter,
                 allAutoCorrections, prompts, responses,
                 acceptedIds, result, parsed,
                 apiKey, argv, engine, fileName, finalFileName>>

\* main after the engine: the result is printed and the process ends
Finish ==
  /\ pc = "written"
  /\ pc' = "exited"
  /\ exitCode' = 0
  /\ UNCHANGED <<text, maxTokens, chunks, i, currentLine, suggestionCounter,
                 allAutoCorrections, allSuggestions, prompts, responses,
                 correctedText, acceptedIds, result, parsed,
                 apiKey, argv, engine, nameVars>>

NextMain ==
  LoadModule \/ Main \/ Spellcheck \/ Chunk \/ ProofreadChunk \/ WriteCorrected \/ Finish

SpecMain == InitMain /\ [][NextMain]_vars

(***************************************************************************)
(* The chunker on its own: chunkText applied to every document of at most  *)
(* MaxDocLen characters over a letter and the line break.                  *)
(***************************************************************************)
RECURSIVE Strings(_, _)
Strings(alphabet, n) ==
  IF n = 0 THEN {<<>>}
  ELSE LET shorter == Strings(alphabet, n - 1)
       IN  shorter \cup {Append(t, c) : t \in {u \in shorter : Len(u) = n - 1}, c \in alphabet}

ChunkDocs == Strings({"a", NL}, MaxDocLen)

InitChunk ==
  /\ pc = "start"
  /\ text \in ChunkDocs
  /\ maxTokens \in 1..MaxTokens
  /\ allAutoCorrections = <<>>
  /\ allSuggestions = <<>>
  /\ Fresh
  /\ Direct

NextChunk == Chunk

SpecChunk == InitChunk /\ [][NextChunk]_vars

(***************************************************************************)
(* The corrector on its own: applyAutoCorrections applied to a document    *)
(* and every list of at most MaxCorrections corrections.                   *)
(***************************************************************************)
CorrDocs == { <<"a", "b">>, <<"a", "b", "\n", "x", "a">> }

CorrChanges ==
  { Change(line, from, to) :
      line \in 0..2,
      from \in { <<"a">>, <<"x">> },
      to \in { <<"x">>, <<>>, <<"b", "\n", "b">> } }

\* the lists of at most n elements of a set
RECURSIVE Lists(_, _)
Lists(set, n) ==
  IF n = 0 THEN {<<>>}
  ELSE LET shorter == Lists(set, n - 1)
       IN  shorter \cup {Append(l, x) : l \in {u \in shorter : Len(u) = n - 1}, x \in set}

InitCorr ==
  /\ pc = "start"
  /\ text \in CorrDocs
  /\ maxTokens = 1
  /\ allAutoCorrections \in Lists(CorrChanges, MaxCorrections)
  /\ allSuggestions = <<>>
  /\ Fresh
  /\ Direct

\* applyAutoCorrections(text, allAutoCorrections)
Correct ==
  /\ pc = "start"
  /\ correctedText' = applyAutoCorrections(text, allAutoCorrections)
  /\ pc' = "corrected"
  /\ UNCHANGED <<text, maxTokens, chunks, i, currentLine, suggestionCounter,
                 allAutoCorrections, allSuggestions, prompts, responses,
                 acceptedIds, result, parsed, procVars, nameVars>>

NextCorr == Correct

SpecCorr == InitCorr /\ [][NextCorr]_vars

(***************************************************************************)
(* The file names: proofread or spellcheck on a file of any name, then     *)
(* applySuggestions on the file they wrote.  The directory of a path is    *)
(* kept by both, so a path is written over when the names are equal.       *)
(***************************************************************************)
FileNames ==
  { <<"a", ".", "m", "d">>,
    <<"a", ".", "t", "x", "t">>,
    <<"a", ".", "M", "D">>,
    <<"a">>,
    <<"a", ".", "m", "d", ".", "b", "a", "k">>,
    <<"a", ".", "p", "r", "o", "o", "f", "r", "e", "a", "d", ".", "m", "d">>,
    <<"a", ".", "m", "d", "x">> }

InitPaths ==
  /\ pc \in {"start", "spellcheck"}
  /\ apiKey = TRUE
  /\ argv = <<>>
  /\ engine = IF pc = "start" THEN Llm ELSE SpellcheckWord
  /\ fileName \in FileNames
  /\ text = <<"a", "b", "c", "c">>
  /\ maxTokens = 1
  /\ allAutoCorrections = <<>>
  /\ allSuggestions = <<>>
  /\ Fresh

NextPaths == Chunk \/ ProofreadChunk \/ WriteCorrected \/ Spellcheck \/ ApplySuggestions

SpecPaths == InitPaths /\ [][NextPaths]_vars

(***************************************************************************)
(* The annotator on its own: insertSuggestionComments applied to a         *)
(* document and every list of at most MaxSuggestions suggestions, numbered *)
(* in list order as proofread and spellcheck number them.                  *)
(***************************************************************************)
InsertDocs == { <<"a", "b">>, <<"a", "b", "\n", "\n", "c", "d">> }

InsertFindings ==
  { Suggestion(<<>>, line, t, sg) :
      line \in 0..3,
      t \in { <<"x">>, <<"x", "\n", "z">> },
      sg \in { Null, Some(<<"y">>) } }

InitInsert ==
  /\ pc = "start"
  /\ text \in InsertDocs
  /\ maxTokens = 1
  /\ allAutoCorrections = <<>>
  /\ \E found \in Lists(InsertFindings, MaxSuggestions) : allSuggestions = AssignIds(found, 1)
  /\ Fresh
  /\ Direct

\* insertSuggestionComments(text, allSuggestions)
Insert ==
  /\ pc = "start"
  /\ correctedText' = insertSuggestionComments(text, allSuggestions)
  /\ pc' = "inserted"
  /\ UNCHANGED <<text, maxTokens, chunks, i, currentLine, suggestionCounter,
                 allAutoCorrections, allSuggestions, prompts, responses,
                 acceptedIds, result, parsed, procVars, nameVars>>

NextInsert == Insert

SpecInsert == InitInsert /\ [][NextInsert]_vars

(***************************************************************************)
(* The normalizer on its own: proofreadChunk on every array of at most     *)
(* MaxItems items, with and without their fields.                          *)
(***************************************************************************)
NormalizeItems ==
  { Item("auto-correction", 1, Some(<<"a">>), Some(<<"x">>), Null),
    Item("suggestion", 2, Null, Null, Some(<<"x">>)),
    Item("other", 1, Some(<<"a">>), Some(<<"x">>), Null),
    Item("auto-correction", NoLine, Some(<<"a">>), Some(<<"x">>), Null),
    Item("auto-correction", 1, Null, Some(<<"x">>), Null),
    Item("auto-correction", 1, Some(<<"a">>), Null, Null),
    Item("suggestion", NoLine, Null, Null, Some(<<"x">>)),
    NullItem }

InitNormalize ==
  /\ pc = "start"
  /\ text = <<>>
  /\ maxTokens = 1
  /\ allAutoCorrections = <<>>
  /\ allSuggestions = <<>>
  /\ Fresh
  /\ Direct

\* proofreadChunk up to JSON.parse: the checker answers with an array
Respond ==
  /\ pc = "start"
  /\ \E items \in Lists(NormalizeItems, MaxItems) : responses' = <<Array(items)>>
  /\ pc' = "responded"
  /\ UNCHANGED <<text, maxTokens, chunks, i, currentLine, suggestionCounter,
                 allAutoCorrections, allSuggestions, prompts,
                 correctedText, acceptedIds, result, parsed, procVars, nameVars>>

\* proofreadChunk from the parsed response on
Normalize ==
  /\ pc = "responded"
  /\ allAutoCorrections' = proofreadChunk(responses[1]).autoCorrections
  /\ allSuggestions' = proofreadChunk(responses[1]).suggestions
  /\ pc' = "normalized"
  /\ UNCHANGED <<text, maxTokens, chunks, i, currentLine, suggestionCounter,
                 prompts, responses, correctedText, acceptedIds, result, parsed,
                 procVars, nameVars>>

NextNormalize == Respond \/ Normalize

SpecNormalize == InitNormalize /\ [][NextNormalize]_vars

(***************************************************************************)
(* A marker on its own: one suggestion is encoded with the template of     *)
(* insertSuggestionComments and the marker is parsed with commentRegex.    *)
(***************************************************************************)
MarkerIdChoices == { <<"S", "1">>, <<"S", "1", "2">> }

MarkerTexts ==
  { <<"x">>,
    <<>>,
    <<" ", "x">>,
    <<"x", " ">>,
    <<"x", "\n", "z">>,
    <<"x", " ", "S", "u", "g", "g", "e", "s", "t", "e", "d", ":", " ", "\"", "y", "\"">>,
    <<"a", "-", "-", ">", "b">> }

MarkerSuggested ==
  { Null,
    Some(<<"y">>),
    Some(<<>>),
    Some(<<"y", "\"", "z">>),
    Some(<<"y", " ">>),
    Some(<<"a", "-", "-", ">", "b">>) }

InitMarker ==
  /\ pc = "start"
  /\ text = <<>>
  /\ maxTokens = 1
  /\ allAutoCorrections = <<>>
  /\ \E id \in MarkerIdChoices, t \in MarkerTexts, sg \in MarkerSuggested :
       allSuggestions = <<Suggestion(id, 1, t, sg)>>
  /\ Fresh
  /\ Direct

\* the comment built by insertSuggestionComments for the suggestion
Encode ==
  /\ pc = "start"
  /\ correctedText' = Comment(allSuggestions[1])
  /\ pc' = "encoded"
  /\ UNCHANGED <<text, maxTokens, chunks, i, currentLine, suggestionCounter,
                 allAutoCorrections, allSuggestions, prompts, responses,
                 acceptedIds, result, parsed, procVars, nameVars>>

\* the exec loop of applySuggestions on the comment
Parse ==
  /\ pc = "encoded"
  /\ parsed' = commentsOnLine(correctedText)
  /\ pc' = "parsed"
  /\ UNCHANGED <<text, maxTokens, chunks, i, currentLine, suggestionCounter,
                 allAutoCorrections, allSuggestions, prompts, responses,
                 correctedText, acceptedIds, result, procVars, nameVars>>

NextMarker == Encode \/ Parse

SpecMarker == InitMarker /\ [][NextMarker]_vars

(***************************************************************************)
(* Helpers of the properties.                                              *)
(***************************************************************************)
\* the concatenation of a sequence of sequences
RECURSIVE Flatten(_)
Flatten(seqs) == IF seqs = <<>> THEN <<>> ELSE seqs[1] \o Flatten(Tail(seqs))

\* the lines of every chunk, chunk after chunk
ChunkLines == Flatten([k \in 1..Len(chunks) |-> SplitLines(chunks[k])])

\* the number of lines of the chunks before chunk k
RECURSIVE LinesBefore(_)
LinesBefore(k) == IF k <= 1 THEN 0 ELSE LinesBefore(k - 1) + Len(SplitLines(chunks[k - 1]))

\* the sum of the size estimates of the lines
RECURSIVE SumTokens(_)
SumTokens(lines) == IF lines = <<>> THEN 0 ELSE estimateTokens(lines[1]) + SumTokens(Tail(lines))

\* the suggestions of all responses so far, in call order, before numbering
Collected == Flatten([k \in 1..Len(responses) |-> proofreadChunk(responses[k]).suggestions])

IsFailure(response) == response.kind # "array"

(***************************************************************************)
(* C5.  The k-th suggestion collected over the run carries the id S<k>:    *)
(* the collected suggestions are those of the checker's responses in call  *)
(* order and in the order of each response, numbered 1, 2, ... without     *)
(* gaps, so the ids are pairwise distinct and determined by the responses. *)
(***************************************************************************)
C5_IdsSequential ==
  /\ Len(allSuggestions) = Len(Collected)
  /\ \A k \in 1..Len(allSuggestions) :
       allSuggestions[k] = [Collected[k] EXCEPT !.id = <<"S">> \o Decimal(k)]
  /\ \A j, k \in 1..Len(allSuggestions) :
       j # k => allSuggestions[j].id # allSuggestions[k].id

C5_Witness ==
  /\ pc = "written"
  /\ Len(responses) = 3
  /\ IsFailure(responses[2])
  /\ Len(proofreadChunk(responses[1]).suggestions) = 2
  /\ Len(proofreadChunk(responses[3]).suggestions) = 2
  /\ allSuggestions[4].id = <<"S", "4">>

(***************************************************************************)
(* C6.  The chunks joined with single line breaks are the document, and    *)
(* the lines of the chunks, chunk after chunk, are the lines of the        *)
(* document: no line is split and no chunk is without a line.              *)
(***************************************************************************)
C6_ChunksRebuildText ==
  pc # "start" =>
    /\ JoinLines(chunks) = text
    /\ ChunkLines = SplitLines(text)
    /\ \A k \in 1..Len(chunks) : Len(SplitLines(chunks[k])) >= 1
    /\ Len(chunks) >= 1

C6_Witness ==
  /\ pc # "start"
  /\ Len(chunks) >= 3
  /\ \E k \in 1..Len(chunks) : Len(SplitLines(chunks[k])) >= 2
  /\ JoinLines(chunks) = text

(***************************************************************************)
(* C7.  The startLine of the call for chunk k is 1 plus the number of      *)
(* lines of the chunks before it, which is the line number in the document *)
(* of the chunk's first line, also after a failed call.                    *)
(***************************************************************************)
C7_StartLine ==
  \A k \in 1..Len(prompts) :
    LET n == Len(SplitLines(chunks[k]))
        start == prompts[k].startLine
    IN  /\ prompts[k].text = chunks[k]
        /\ start = 1 + LinesBefore(k)
        /\ SubSeq(SplitLines(text), start, start + n - 1) = SplitLines(chunks[k])

C7_Witness ==
  /\ Len(prompts) = 3
  /\ IsFailure(responses[1])
  /\ Len(SplitLines(chunks[1])) = 2
  /\ prompts[2].startLine = 3
  /\ prompts[3].startLine > 3

(***************************************************************************)
(* C8.  As claimed: every chunk is a single line or has a size estimate,   *)
(* estimateTokens of the chunk's text, of at most maxTokens, and a line    *)
(* whose own estimate exceeds maxTokens is alone in its chunk.             *)
(***************************************************************************)
C8_Original ==
  pc # "start" =>
    \A k \in 1..Len(chunks) :
      LET lines == SplitLines(chunks[k])
      IN  /\ Len(lines) = 1 \/ estimateTokens(chunks[k]) <= maxTokens
          /\ (\E n \in 1..Len(lines) : estimateTokens(lines[n]) > maxTokens) => Len(lines) = 1

(***************************************************************************)
(* C8, amended.  Every chunk is a single line, or is the whole document    *)
(* returned unsplit because its estimate is at most maxTokens, or has      *)
(* per-line estimates that sum to at most maxTokens; a line whose own      *)
(* estimate exceeds maxTokens is alone in its chunk.                       *)
(***************************************************************************)
C8_ChunkWithinLimit ==
  pc # "start" =>
    \A k \in 1..Len(chunks) :
      LET lines == SplitLines(chunks[k])
      IN  /\ \/ Len(lines) = 1
             \/ chunks = <<text>> /\ estimateTokens(text) <= maxTokens
             \/ SumTokens(lines) <= maxTokens
          /\ (\E n \in 1..Len(lines) : estimateTokens(lines[n]) > maxTokens) => Len(lines) = 1

C8_Witness ==
  /\ pc # "start"
  /\ Len(chunks) >= 2
  /\ \E k \in 1..Len(chunks) :
       /\ Len(SplitLines(chunks[k])) >= 2
       /\ SumTokens(SplitLines(chunks[k])) <= maxTokens
       /\ estimateTokens(chunks[k]) > maxTokens

(***************************************************************************)
(* C9.  As claimed: a document whose size estimate exceeds maxTokens is    *)
(* returned as at least 2 chunks.                                          *)
(***************************************************************************)
C9_Original ==
  (pc # "start" /\ estimateTokens(text) > maxTokens) => Len(chunks) >= 2

(***************************************************************************)
(* C9, amended.  A document of at least two lines whose size estimate      *)
(* exceeds maxTokens and whose per-line estimates sum to more than         *)
(* maxTokens is returned as at least 2 chunks.                             *)
(***************************************************************************)
C9_SplitWhenOverLimit ==
  (/\ pc # "start"
   /\ estimateTokens(text) > maxTokens
   /\ Len(SplitLines(text)) >= 2
   /\ SumTokens(SplitLines(text)) > maxTokens) => Len(chunks) >= 2

C9_Witness ==
  /\ pc # "start"
  /\ estimateTokens(text) > maxTokens
  /\ Len(SplitLines(text)) >= 2
  /\ SumTokens(SplitLines(text)) > maxTokens
  /\ Len(chunks) = 2

(***************************************************************************)
(* Helpers of the resolver properties.                                     *)
(***************************************************************************)
\* a substring of the shape <!-- [S<n>] REVIEW: ... --> begins at p
MarkerAt(t, p) ==
  /\ LitAt(t, p, CommentOpen \o <<SP, "[", "S">>)
  /\ SkipDigits(t, p + 7) > p + 7
  /\ LitAt(t, SkipDigits(t, p + 7), <<"]", SP>> \o ReviewWord)
  /\ Includes(From(t, SkipDigits(t, p + 7) + 9), CommentClose)

HasMarker(t) == \E p \in 1..Len(t) : MarkerAt(t, p)

\* no text or suggested field of a collected suggestion contains -->
NoCloseInFields ==
  \A k \in 1..Len(allSuggestions) :
    /\ ~Includes(allSuggestions[k].text, CommentClose)
    /\ allSuggestions[k].suggested # Null =>
         ~Includes(allSuggestions[k].suggested[1], CommentClose)

\* the ids of the markers of a document, line after line and left to right
IdsOf(comments) == [k \in 1..Len(comments) |-> comments[k].id]

IdsOfLines(lines) == Flatten([n \in 1..Len(lines) |-> IdsOf(commentsOnLine(lines[n]))])

MarkerIds(doc) == IdsOfLines(SplitLines(doc))

InList(list, x) == \E k \in 1..Len(list) : list[k] = x

\* the subsequence of the ids that are, or are not, in the resolution set
RECURSIVE Keep(_, _, _)
Keep(ids, accepted, wanted) ==
  IF ids = <<>> THEN <<>>
  ELSE (IF (InList(accepted, ids[1]) \/ InList(accepted, <<"A", "L", "L">>)) = wanted
        THEN <<ids[1]>> ELSE <<>>)
       \o Keep(Tail(ids), accepted, wanted)

\* line n of the original document is the target of no finding
Untouched(n) ==
  /\ \A k \in 1..Len(allAutoCorrections) : allAutoCorrections[k].line # n
  /\ \A k \in 1..Len(allSuggestions) : allSuggestions[k].line # n

\* line n of doc is line n of the original document
SameLine(doc, n) ==
  /\ n <= Len(SplitLines(doc))
  /\ SplitLines(doc)[n] = SplitLines(text)[n]

(***************************************************************************)
(* C1.  As claimed: when the document read by proofread holds no marker    *)
(* and no text or suggested field holds -->, the final text written by     *)
(* applySuggestions holds no marker.                                       *)
(***************************************************************************)
C1_Original ==
  (pc = "resolved" /\ ~HasMarker(text) /\ NoCloseInFields) => ~HasMarker(result.finalText)

(***************************************************************************)
(* C2.  Every marker of the annotated document puts its id in exactly one  *)
(* of applied and removed: applied holds, in document order, the ids that  *)
(* are in the accepted list or all ids when the list holds ALL, removed    *)
(* holds the others in document order, and no id is in both lists.         *)
(***************************************************************************)
\* applied and removed split the ids by membership in the resolution set
Partitioned(ids) ==
  /\ result.applied = Keep(ids, acceptedIds, TRUE)
  /\ result.removed = Keep(ids, acceptedIds, FALSE)
  /\ Len(result.applied) + Len(result.removed) = Len(ids)
  /\ \A j \in 1..Len(result.applied), k \in 1..Len(result.removed) :
       result.applied[j] # result.removed[k]

C4_Original ==
  \A n \in 1..Len(SplitLines(text)) :
    Untouched(n) =>
      /\ pc \in {"written", "resolved"} => SameLine(correctedText, n)
      /\ pc = "resolved" => SameLine(result.finalText, n)

(***************************************************************************)
(* C3.  As claimed: a suggestion whose text and suggested field do not     *)
(* hold --> is encoded as a marker that commentRegex parses back to the    *)
(* same id, the same description and the same suggested text, which is     *)
(* absent exactly when the suggested field was null.                       *)
(***************************************************************************)
C3_Original ==
  (pc = "parsed" /\ NoCloseInFields) =>
    /\ Len(parsed) = 1
    /\ parsed[1].id = allSuggestions[1].id
    /\ parsed[1].description = allSuggestions[1].text
    /\ parsed[1].suggested = allSuggestions[1].suggested

\* the list without its k-th element
Without(list, k) == SubSeq(list, 1, k - 1) \o SubSeq(list, k + 1, Len(list))

\* the from text of the correction is not in its target line of the document
AbsentFrom(doc, change) ==
  /\ change.line \in 1..Len(SplitLines(doc))
  /\ ~Includes(SplitLines(doc)[change.line], change.from)

(***************************************************************************)
(* C10.  As claimed: a correction whose from text is not a substring of    *)
(* its target line in the original document has no effect, the output of   *)
(* applyAutoCorrections being the output for the list without it, also     *)
(* when other corrections of the list target the same line.                *)
(***************************************************************************)
C10_Original ==
  pc = "corrected" =>
    \A k \in 1..Len(allAutoCorrections) :
      AbsentFrom(text, allAutoCorrections[k]) =>
        correctedText = applyAutoCorrections(text, Without(allAutoCorrections, k))

\* the corrections of all responses so far, in call order
CollectedCorrections ==
  Flatten([k \in 1..Len(responses) |-> proofreadChunk(responses[k]).autoCorrections])

\* the calls so far are those for the first chunks, one response each, and
\* the collected findings are those of the responses, a failure giving none
CollectedInOrder ==
  /\ Len(prompts) = i /\ Len(responses) = i /\ i <= Len(chunks)
  /\ \A k \in 1..i : prompts[k].text = chunks[k]
  /\ \A k \in 1..i :
       IsFailure(responses[k]) =>
         proofreadChunk(responses[k]) = [autoCorrections |-> <<>>, suggestions |-> <<>>]
  /\ allAutoCorrections = CollectedCorrections
  /\ Len(allSuggestions) = Len(Collected)
  /\ \A k \in 1..Len(allSuggestions) : [allSuggestions[k] EXCEPT !.id = <<>>] = Collected[k]
  /\ pc \in {"start", "loop", "written", "resolved"}
  /\ pc \in {"written", "resolved"} => i = Len(chunks)

(***************************************************************************)
(* C11.  The chunks are submitted one at a time in document order, each    *)
(* call answered before the next; a failed call or an unparseable response *)
(* contributes no finding, the findings of the calls before it are kept,   *)
(* the chunks after it are still submitted, and the run is in no other     *)
(* position than the loop until it writes the intermediate document, which *)
(* it does only after a call for every chunk.                              *)
(***************************************************************************)
C11_FailureTolerated == CollectedInOrder

C11_Witness ==
  /\ pc = "written"
  /\ Len(responses) = 3
  /\ ~IsFailure(responses[1]) /\ Len(proofreadChunk(responses[1]).autoCorrections) = 1
  /\ responses[2] = Failure("parseError")
  /\ ~IsFailure(responses[3]) /\ Len(proofreadChunk(responses[3]).suggestions) = 1
  /\ Len(allAutoCorrections) >= 1
  /\ Len(allSuggestions) >= 2

(***************************************************************************)
(* C12.  As claimed: without the key, a run that asks for the spellcheck   *)
(* engine is not ended before the spellcheck stage, and a run with the llm *)
(* engine exits with a code other than 0 before any chunk is processed and *)
(* before any file is written.                                             *)
(***************************************************************************)
C12_Original ==
  /\ (~apiKey /\ ~Rejected(argv) /\ EngineOf(argv) = SpellcheckWord) =>
       ~(pc = "exited" /\ correctedFileName = <<>>)
  /\ (~apiKey /\ ~Rejected(argv) /\ EngineOf(argv) = Llm) =>
       /\ pc \in {"launch", "exited"}
       /\ prompts = <<>> /\ correctedFileName = <<>> /\ correctedText = <<>>
       /\ pc = "exited" => exitCode # 0

\* a blank and the marker of every suggestion of the list, from the k-th on,
\* whose line is n
RECURSIVE MarkersFor(_, _, _)
MarkersFor(suggestions, k, n) ==
  IF k > Len(suggestions) THEN <<>>
  ELSE (IF suggestions[k].line = n THEN <<SP>> \o Comment(suggestions[k]) ELSE <<>>)
       \o MarkersFor(suggestions, k + 1, n)

\* the annotated document has the lines of the document, each followed by
\* the markers of its suggestions in list order
Annotated(lines, annotated, suggestions) ==
  /\ Len(annotated) = Len(lines)
  /\ \A n \in 1..Len(lines) :
       n <= Len(annotated) => annotated[n] = lines[n] \o MarkersFor(suggestions, 1, n)

(***************************************************************************)
(* C13.  As claimed: insertSuggestionComments returns a document with the  *)
(* same number of lines, where line n is the input line n followed, for    *)
(* every suggestion of that line in list order, by a blank and its marker; *)
(* a suggestion whose line is outside the document leaves no marker.       *)
(***************************************************************************)
C13_Original ==
  pc = "inserted" => Annotated(SplitLines(text), SplitLines(correctedText), allSuggestions)

\* the positions of the list in the order of application: by descending
\* line, and among the corrections of one line by list position, the
\* earlier first or the later first
InOrder(list, perm, earlierFirst) ==
  \A j, k \in 1..Len(list) :
    j < k =>
      \/ list[perm[j]].line > list[perm[k]].line
      \/ /\ list[perm[j]].line = list[perm[k]].line
         /\ IF earlierFirst THEN perm[j] < perm[k] ELSE perm[j] > perm[k]

Ordered(list, earlierFirst) ==
  LET perm == CHOOSE f \in Permutations(1..Len(list)) : InOrder(list, f, earlierFirst)
  IN  [k \in 1..Len(list) |-> list[perm[k]]]

\* the document after the corrections are applied one by one in that order
AppliedInOrder(earlierFirst) ==
  JoinLines(CorrectLoop(SplitLines(text), Ordered(allAutoCorrections, earlierFirst)))

(***************************************************************************)
(* C14.  As claimed: the corrections are applied by descending line, and   *)
(* those of one line with the one listed later applied first.              *)
(***************************************************************************)
C14_Original ==
  pc = "corrected" => correctedText = AppliedInOrder(FALSE)

(***************************************************************************)
(* C14, amended.  The corrections are applied by descending line, and      *)
(* those of one line in list order, the one listed earlier applied first.  *)
(***************************************************************************)
C14_FirstListedFirst ==
  pc = "corrected" => correctedText = AppliedInOrder(TRUE)

C14_Witness ==
  /\ pc = "corrected"
  /\ Len(allAutoCorrections) = 2
  /\ allAutoCorrections[1].line = allAutoCorrections[2].line
  /\ AppliedInOrder(TRUE) # AppliedInOrder(FALSE)
  /\ correctedText = AppliedInOrder(TRUE)

(***************************************************************************)
(* C15.  As claimed: the output of applyAutoCorrections, split into lines  *)
(* again, has as many lines as the document, and every line that is the    *)
(* target of no correction is the same line at the same index.             *)
(***************************************************************************)
C15_Original ==
  pc = "corrected" =>
    /\ Len(SplitLines(correctedText)) = Len(SplitLines(text))
    /\ \A n \in 1..Len(SplitLines(text)) :
         (\A k \in 1..Len(allAutoCorrections) : allAutoCorrections[k].line # n) =>
           SameLine(correctedText, n)

\* the item is an object of a known type with its required fields
WellFormed(item) ==
  /\ ~item.isNull
  /\ item.line # NoLine
  /\ \/ item.type = "auto-correction" /\ item.from # Null /\ item.to # Null
     \/ item.type = "suggestion"

(***************************************************************************)
(* C16.  As claimed: the corrections and the suggestions returned for an   *)
(* array are those of its well-formed items, each in its class and in the  *)
(* order of the array; a malformed item is in neither list and costs no    *)
(* other finding.                                                          *)
(***************************************************************************)
C16_Original ==
  pc = "normalized" =>
    /\ allAutoCorrections = NormalizeCorrections(SelectSeq(responses[1].items, WellFormed))
    /\ allSuggestions = NormalizeSuggestions(SelectSeq(responses[1].items, WellFormed))

\* the final text of the annotated document when no id is accepted
NoneAccepted == applySuggestions(correctedText, <<>>).finalText

\* an applied id is the id of a suggestion with a suggested text
AppliedWithSuggested ==
  \E k \in 1..Len(allSuggestions) :
    /\ InList(result.applied, allSuggestions[k].id)
    /\ allSuggestions[k].suggested # Null
    /\ allSuggestions[k].suggested[1] # <<>>

C18_Original ==
  /\ pc \in {"written", "resolved"} => correctedFileName # fileName
  /\ pc = "resolved" => finalFileName # correctedFileName

====
